---- MODULE Spec2Model ----
(***************************************************************************)
(* InMemoryVectorStore (src/src/memory/index.ts): the id -> item Map, the  *)
(* snapshot file it loads on initialize() and rewrites on every mutation,  *)
(* and the asynchronous calls that interleave at their await points (the   *)
(* embedding provider call of update, the fs.writeFile call of persist).   *)
(***************************************************************************)
EXTENDS Integers, Sequences, FiniteSets, TLC

\* ----- bounds of the model ------------------------------------------------
MaxOps == 3      \* store operations started in one run
MaxAdds == 2     \* ids handed out by randomUUID in one run
Dim == 2         \* dimensions of the embedding provider

\* ----- JavaScript values --------------------------------------------------
\* Objects are functions from property names to values. A text is the
\* sequence of its character codes; an embedding component n stands for n/255.
Empty == <<>>                       \* the object {} (and the empty string / array)
Null == [jsnull |-> TRUE]           \* null
Undefined == 0                      \* the Map key `undefined`
Void == [jsundefined |-> TRUE]      \* the result of a Promise<void>
JSBool(b) == [jsbool |-> b]         \* true / false
\* variant: no value is taken for null
IsNullNever(v) == FALSE
IsNull(v) == "jsnull" \in DOMAIN v

\* { ...a, ...b }
Spread(a, b) == [k \in (DOMAIN a) \cup (DOMAIN b) |-> IF k \in DOMAIN b THEN b[k] ELSE a[k]]

\* item.id of a parsed snapshot entry (undefined when the object has no id)
ItemId(v) == IF "id" \in DOMAIN v THEN v.id ELSE Undefined

\* ----- the insertion-ordered Map<string, MemoryItem> ------------------------
EmptyMap == <<>>
MapKeys(m) == {m[i].key : i \in 1..Len(m)}
MapHas(m, k) == k \in MapKeys(m)
MapGet(m, k) == m[CHOOSE i \in 1..Len(m) : m[i].key = k].value
MapSet(m, k, v) ==
    IF MapHas(m, k)
    THEN [i \in 1..Len(m) |-> IF m[i].key = k THEN [key |-> k, value |-> v] ELSE m[i]]
    ELSE Append(m, [key |-> k, value |-> v])
IsNotKey(e, k) == e.key # k
\* variant: the filter keeps the wrong side
MapDeleteInverted(m, k) == SelectSeq(m, LAMBDA e : ~IsNotKey(e, k))
MapDelete(m, k) == SelectSeq(m, LAMBDA e : IsNotKey(e, k))
MapValues(m) == [i \in 1..Len(m) |-> m[i].value]
MapEntries(m) == {m[i] : i \in 1..Len(m)}

\* ----- the embedding provider ----------------------------------------------
\* MockEmbeddingProvider.getEmbedding: component i is the code of character i
\* (over 255), zero past the end of the text.
getEmbedding(text) == [i \in 1..Dim |-> IF i <= Len(text) THEN text[i] ELSE 0]
\* MockEmbeddingProvider.getDimensions
getDimensions == Dim

\* ----- snapshot file ---------------------------------------------------------
\* kind: "absent" (ENOENT), "unreadable" (readFile fails otherwise), "invalid"
\* (JSON.parse throws), "nonarray" (parses, not an array), "array".
File(kind, entries) == [kind |-> kind, entries |-> entries]
NoFile == File("absent", <<>>)
Garbage == File("invalid", <<>>)

\* JSON.stringify(Array.from(this.items.values())): the values in insertion
\* order; the Map keys are not written.
JSONStringify(values) == File("array", values)

\* variant: the entries are stored under their position in the file
RECURSIVE LoadEntriesByPosition(_, _)
LoadEntriesByPosition(m, entries) ==
    IF entries = <<>> THEN m
    ELSE IF IsNull(Head(entries)) THEN m
    ELSE LoadEntriesByPosition(MapSet(m, 1000 + Len(m), Head(entries)), Tail(entries))

\* the loop of initialize(): items.set(item.id, item) for each entry; reading
\* .id of null throws, which ends the loop with the entries set so far
RECURSIVE LoadEntries(_, _)
LoadEntries(m, entries) ==
    IF entries = <<>> THEN m
    ELSE IF IsNull(Head(entries)) THEN m
    ELSE LoadEntries(MapSet(m, ItemId(Head(entries)), Head(entries)), Tail(entries))

\* variant: the entries of the file are added to the collection as it is
InitializeItemsAppending(m, file) ==
    IF file.kind = "array" THEN m \o LoadEntries(EmptyMap, file.entries) ELSE m

\* the collection after the inner try block of initialize()
InitializeItems(m, file) ==
    IF file.kind = "array" THEN LoadEntries(EmptyMap, file.entries) ELSE m

\* get(id): this.items.get(id) || null
get(m, id) == IF MapHas(m, id) THEN MapGet(m, id) ELSE Null

\* ----- inputs ------------------------------------------------------------------
Calls == {1, 2}

Payload == [text |-> <<1>>,
            metadata |-> [timestamp |-> 1, source |-> "test", tags |-> <<"original">>,
                          custom |-> "v"],
            embedding |-> getEmbedding(<<1>>)]
AddPayloads == {Payload}

\* an id that a patch carries (update's type omits id, the spread takes it)
PayloadId == 999
UpdatePatches ==
    { [text |-> <<2>>],
      [text |-> <<>>],
      [metadata |-> Empty],
      [id |-> PayloadId, text |-> <<1, 2>>, metadata |-> [source |-> "edit"]],
      [id |-> PayloadId, text |-> <<2>>, embedding |-> getEmbedding(<<2, 2>>),
       metadata |-> [tags |-> <<"updated">>]] }

StoredItem == [id |-> 101, text |-> <<1, 1>>,
               metadata |-> [timestamp |-> 0, source |-> "old", tags |-> <<"kept">>],
               embedding |-> getEmbedding(<<1, 1>>)]
InitialSnapshots ==
    { NoFile, File("unreadable", <<>>), Garbage, File("nonarray", <<>>),
      File("array", <<StoredItem, Null>>), File("array", <<[text |-> <<1>>]>>),
      File("array", <<StoredItem, Spread(StoredItem, [text |-> <<2>>])>>) }   \* one id twice

VARIABLES
    items,        \* this.items
    persistPath,  \* TRUE when a persistence path was given to the constructor
    disk,         \* the snapshot file
    init,         \* "new", "ready", or the error initialize() raised
    call,         \* per caller: the operation in flight and its local variables
    last,         \* how the operation that ended last ended
    nextId,       \* the next id randomUUID hands out
    trace         \* history: operations started, last mutating operation, ...

vars == <<items, persistPath, disk, init, call, last, nextId, trace>>

Idle == [pc |-> "idle"]
NoRet == [opId |-> 0, op |-> "none", id |-> Undefined, arg |-> Void, status |-> "ok",
          value |-> Void, before |-> Null, overwritten |-> Null, wfail |-> FALSE]
InFlight == {c \in Calls : call[c].pc # "idle"}

Init ==
    /\ items = EmptyMap
    /\ persistPath \in BOOLEAN
    /\ disk \in (IF persistPath THEN InitialSnapshots ELSE {NoFile})
    /\ init = "new"
    /\ call = [c \in Calls |-> Idle]
    /\ last = NoRet
    /\ nextId = 1
    /\ trace = [nops |-> 0, lastMut |-> 0, overlap |-> FALSE, wfail |-> FALSE]


\* ----- starting and ending an operation -------------------------------------------
\* The tool layer is registered after `await vectorStore.initialize()`: operations
\* are issued on an initialized store only.
\* A new call takes the first free slot (the slots are interchangeable).
CanStart(c) ==
    /\ init = "ready" /\ trace.nops < MaxOps
    /\ call[c].pc = "idle"
    /\ \A d \in Calls : d < c => call[d].pc # "idle"

\* ids a caller may pass: those of the stored items and one that is not stored
NonexistentId == 404
IdChoices == (MapKeys(items) \ {Undefined}) \cup {NonexistentId}

\* update's arguments: every patch on a stored id, one patch on the absent id
UpdateInputs ==
    {<<id, updates>> \in IdChoices \X UpdatePatches :
        id = NonexistentId => updates = [text |-> <<2>>]}

Begin(mutates) ==
    [trace EXCEPT !.nops = @ + 1,
                  !.overlap = @ \/ (InFlight # {}),
                  !.lastMut = IF mutates THEN trace.nops + 1 ELSE @]

Returned(u, status, value, wfail) ==
    [opId |-> u.opId, op |-> u.op, id |-> u.id, arg |-> u.arg, status |-> status,
     value |-> value, before |-> u.before, overwritten |-> u.overwritten,
     wfail |-> wfail]

\* variant: the collection is serialized as it was before the mutation
persistStale(m) == IF persistPath THEN JSONStringify(MapValues(items)) ELSE NoFile

\* persist(), up to its await: nothing without a path, else the serialized
\* collection that is handed to fs.writeFile
persist(m) == IF persistPath THEN JSONStringify(MapValues(m)) ELSE NoFile

Persisting(opId, op, id, arg, before, overwritten, value, m) ==
    [pc |-> "persisting", opId |-> opId, op |-> op, id |-> id, arg |-> arg,
     before |-> before, overwritten |-> overwritten, value |-> value,
     data |-> persist(m)]

\* ----- initialize() --------------------------------------------------------------------
Initialize ==
    /\ init = "new"
    /\ IF ~persistPath
       THEN init' = "ready" /\ items' = items
       ELSE \/ init' = "VectorStoreError" /\ items' = items          \* fs.mkdir fails
            \/ init' = "ready" /\ items' = InitializeItems(items, disk)
    /\ UNCHANGED <<persistPath, disk, call, last, nextId, trace>>

\* ----- add(item) -------------------------------------------------------------------------
\* variant: a field-by-field copy that keeps only the declared metadata fields
NewMemoryItemTyped(item, id) ==
    [id |-> id, text |-> item.text, embedding |-> item.embedding,
     metadata |-> [timestamp |-> item.metadata.timestamp, source |-> item.metadata.source,
                   tags |-> item.metadata.tags]]

\* variant: { id, ...item }, an id of the payload wins
NewMemoryItemIdFirst(item, id) == Spread([id |-> id], item)

\* { ...item, id }
NewMemoryItem(item, id) == Spread(item, [id |-> id])

Add(c, item) ==
    /\ CanStart(c)
    /\ nextId <= MaxAdds
    /\ LET id == nextId
           memoryItem == NewMemoryItem(item, id)
           m == MapSet(items, id, memoryItem)
       IN /\ items' = m
          /\ call' = [call EXCEPT ![c] =
                 Persisting(trace.nops + 1, "add", id, item, Null, Null, memoryItem, m)]
    /\ nextId' = nextId + 1
    /\ trace' = Begin(TRUE)
    /\ UNCHANGED <<persistPath, disk, init, last>>

\* ----- update(id, updates) ----------------------------------------------------------------
\* variant: the id is not restored after the patch
UpdatedItemOfPatch(item, updates, id) == Spread(item, updates)

\* { ...item, ...updates, id }
UpdatedItem(item, updates, id) == Spread(Spread(item, updates), [id |-> id])

\* updates.text && !updates.embedding  (the empty string is falsy, an array is truthy)
NeedsEmbedding(updates) ==
    /\ "text" \in DOMAIN updates /\ updates.text # <<>>
    /\ "embedding" \notin DOMAIN updates

\* if (updates.metadata && Object.keys(updates.metadata).length > 0) ...
MergeMetadata(item, updates, updatedItem) ==
    IF "metadata" \in DOMAIN updates /\ DOMAIN updates.metadata # {}
    THEN Spread(updatedItem, [metadata |-> Spread(item.metadata, updates.metadata)])
    ELSE updatedItem

\* variant: persist() is awaited first, the item is not yet set when update suspends
CommitAfterPersist(c, opId, id, updates, item, updatedItem) ==
    /\ items' = items
    /\ call' = [call EXCEPT ![c] =
           Persisting(opId, "update", id, updates, item, get(items, id), updatedItem, items)]

\* this.items.set(id, updatedItem); await this.persist()
Commit(c, opId, id, updates, item, updatedItem) ==
    LET m == MapSet(items, id, updatedItem)
    IN /\ items' = m
       /\ call' = [call EXCEPT ![c] =
              Persisting(opId, "update", id, updates, item, get(items, id), updatedItem, m)]

\* variant: the patched item is stored before the provider is awaited
UpdateStoresEarly(c, id, updates) ==
    /\ CanStart(c)
    /\ LET opId == trace.nops + 1
           item == get(items, id)
       IN IF IsNull(item)
          THEN /\ last' =
                      [opId |-> opId, op |-> "update", id |-> id, arg |-> updates,
                       status |-> "ok", value |-> Null, before |-> Null,
                       overwritten |-> Null, wfail |-> FALSE]
               /\ trace' = Begin(FALSE)
               /\ UNCHANGED <<items, call>>
          ELSE IF NeedsEmbedding(updates)
          THEN /\ call' = [call EXCEPT ![c] =
                      [pc |-> "embedding", opId |-> opId, op |-> "update", id |-> id,
                       arg |-> updates, before |-> item, overwritten |-> Null,
                       updatedItem |-> UpdatedItem(item, updates, id)]]
               /\ items' = MapSet(items, id, UpdatedItem(item, updates, id))
               /\ trace' = Begin(FALSE)
               /\ UNCHANGED last
          ELSE /\ Commit(c, opId, id, updates, item,
                         MergeMetadata(item, updates, UpdatedItem(item, updates, id)))
               /\ trace' = Begin(TRUE)
               /\ UNCHANGED last
    /\ UNCHANGED <<persistPath, disk, init, nextId>>

Update(c, id, updates) ==
    /\ CanStart(c)
    /\ LET opId == trace.nops + 1
           item == get(items, id)
       IN IF IsNull(item)
          THEN /\ last' =
                      [opId |-> opId, op |-> "update", id |-> id, arg |-> updates,
                       status |-> "ok", value |-> Null, before |-> Null,
                       overwritten |-> Null, wfail |-> FALSE]
               /\ trace' = Begin(FALSE)
               /\ UNCHANGED <<items, call>>
          ELSE IF NeedsEmbedding(updates)
          THEN /\ call' = [call EXCEPT ![c] =
                      [pc |-> "embedding", opId |-> opId, op |-> "update", id |-> id,
                       arg |-> updates, before |-> item, overwritten |-> Null,
                       updatedItem |-> UpdatedItem(item, updates, id)]]
               /\ trace' = Begin(FALSE)
               /\ UNCHANGED <<items, last>>
          ELSE /\ Commit(c, opId, id, updates, item,
                         MergeMetadata(item, updates, UpdatedItem(item, updates, id)))
               /\ trace' = Begin(TRUE)
               /\ UNCHANGED last
    /\ UNCHANGED <<persistPath, disk, init, nextId>>

\* variant: the update is dropped when the item is gone by the time the provider answers
UpdateEmbeddedIfPresent(c) ==
    /\ call[c].pc = "embedding"
    /\ LET u == call[c]
           embedded == Spread(u.updatedItem, [embedding |-> getEmbedding(u.arg.text)])
       IN IF MapHas(items, u.id)
          THEN /\ Commit(c, u.opId, u.id, u.arg, u.before,
                         MergeMetadata(u.before, u.arg, embedded))
               /\ trace' = [trace EXCEPT !.lastMut = u.opId]
               /\ UNCHANGED last
          ELSE /\ last' = Returned(u, "ok", Null, FALSE)
               /\ call' = [call EXCEPT ![c] = Idle]
               /\ UNCHANGED <<items, trace>>
    /\ UNCHANGED <<persistPath, disk, init, nextId>>

\* variant: the item is read again after the provider call and the patch applied to it
UpdateEmbeddedRebased(c) ==
    /\ call[c].pc = "embedding"
    /\ LET u == call[c]
           item == IF MapHas(items, u.id) THEN MapGet(items, u.id) ELSE u.before
           embedded == Spread(UpdatedItem(item, u.arg, u.id),
                              [embedding |-> getEmbedding(u.arg.text)])
       IN Commit(c, u.opId, u.id, u.arg, u.before, MergeMetadata(item, u.arg, embedded))
    /\ trace' = [trace EXCEPT !.lastMut = call[c].opId]
    /\ UNCHANGED <<persistPath, disk, init, last, nextId>>

\* the provider call resolves: updatedItem.embedding = <the vector>, then the merge,
\* the set and persist()
UpdateEmbedded(c) ==
    /\ call[c].pc = "embedding"
    /\ LET u == call[c]
           embedded == Spread(u.updatedItem, [embedding |-> getEmbedding(u.arg.text)])
       IN Commit(c, u.opId, u.id, u.arg, u.before, MergeMetadata(u.before, u.arg, embedded))
    /\ trace' = [trace EXCEPT !.lastMut = call[c].opId]
    /\ UNCHANGED <<persistPath, disk, init, last, nextId>>

\* variant: the item is stored before the provider is awaited
UpdateEmbeddingFailedAfterSet(c) ==
    /\ call[c].pc = "embedding"
    /\ items' = MapSet(items, call[c].id, call[c].updatedItem)
    /\ last' = Returned(call[c], "VectorStoreError", Void, FALSE)
    /\ call' = [call EXCEPT ![c] = Idle]
    /\ UNCHANGED <<persistPath, disk, init, nextId, trace>>

\* the provider call rejects: throw new VectorStoreError(...)
UpdateEmbeddingFailed(c) ==
    /\ call[c].pc = "embedding"
    /\ last' = Returned(call[c], "VectorStoreError", Void, FALSE)
    /\ call' = [call EXCEPT ![c] = Idle]
    /\ UNCHANGED <<items, persistPath, disk, init, nextId, trace>>

\* ----- delete(id) ----------------------------------------------------------------------------
Delete(c, id) ==
    /\ CanStart(c)
    /\ LET opId == trace.nops + 1
           result == MapHas(items, id)
           m == MapDelete(items, id)
       IN /\ items' = m
          /\ IF result
             THEN /\ call' = [call EXCEPT ![c] =
                         Persisting(opId, "delete", id, Void, get(items, id), Null,
                                    JSBool(result), m)]
                  /\ UNCHANGED last
             ELSE /\ last' =
                         [opId |-> opId, op |-> "delete", id |-> id, arg |-> Void,
                          status |-> "ok", value |-> JSBool(result), before |-> Null,
                          overwritten |-> Null, wfail |-> FALSE]
                  /\ UNCHANGED call
          /\ trace' = Begin(result)
    /\ UNCHANGED <<persistPath, disk, init, nextId>>

\* ----- clear() ---------------------------------------------------------------------------------
\* variant: the collection is emptied and nothing is written
ClearUnpersisted(c) ==
    /\ CanStart(c)
    /\ items' = EmptyMap
    /\ last' = [opId |-> trace.nops + 1, op |-> "clear", id |-> Undefined, arg |-> Void,
                status |-> "ok", value |-> Void, before |-> Null, overwritten |-> Null,
                wfail |-> FALSE]
    /\ trace' = Begin(TRUE)
    /\ UNCHANGED <<persistPath, disk, init, call, nextId>>

Clear(c) ==
    /\ CanStart(c)
    /\ items' = EmptyMap
    /\ call' = [call EXCEPT ![c] =
           Persisting(trace.nops + 1, "clear", Undefined, Void, Null, Null, Void, EmptyMap)]
    /\ trace' = Begin(TRUE)
    /\ UNCHANGED <<persistPath, disk, init, last, nextId>>

\* ----- the end of persist() ----------------------------------------------------------------------
\* no persistence path: persist() returned at once, the operation returns
PersistSkipped(c) ==
    /\ call[c].pc = "persisting" /\ ~persistPath
    /\ last' = Returned(call[c], "ok", call[c].value, FALSE)
    /\ call' = [call EXCEPT ![c] = Idle]
    /\ UNCHANGED <<items, persistPath, disk, init, nextId, trace>>

\* fs.writeFile resolves: the file holds the data serialized when persist() was called
WriteFileDone(c) ==
    /\ call[c].pc = "persisting" /\ persistPath
    /\ disk' = call[c].data
    /\ last' = Returned(call[c], "ok", call[c].value, FALSE)
    /\ call' = [call EXCEPT ![c] = Idle]
    /\ UNCHANGED <<items, persistPath, init, nextId, trace>>

\* variant: persist() lets the write error escape
WriteFileFailedRethrows(c) ==
    /\ call[c].pc = "persisting" /\ persistPath
    /\ last' = Returned(call[c], "VectorStoreError", Void, TRUE)
    /\ call' = [call EXCEPT ![c] = Idle]
    /\ trace' = [trace EXCEPT !.wfail = TRUE]
    /\ UNCHANGED <<items, persistPath, disk, init, nextId>>

\* fs.writeFile rejects: console.error, nothing is rethrown. The file is as it was.
WriteFileFailed(c) ==
    /\ call[c].pc = "persisting" /\ persistPath
    /\ last' = Returned(call[c], "ok", call[c].value, TRUE)
    /\ call' = [call EXCEPT ![c] = Idle]
    /\ trace' = [trace EXCEPT !.wfail = TRUE]
    /\ UNCHANGED <<items, persistPath, disk, init, nextId>>

Next ==
    \/ Initialize
    \/ \E c \in Calls, item \in AddPayloads : Add(c, item)
    \/ \E c \in Calls, in \in UpdateInputs : Update(c, in[1], in[2])
    \/ \E c \in Calls : UpdateEmbedded(c)
    \/ \E c \in Calls : UpdateEmbeddingFailed(c)
    \/ \E c \in Calls, id \in IdChoices : Delete(c, id)
    \/ \E c \in Calls : Clear(c)
    \/ \E c \in Calls : PersistSkipped(c)
    \/ \E c \in Calls : WriteFileDone(c)
    \/ \E c \in Calls : WriteFileFailed(c)

Spec == Init /\ [][Next]_vars


\* ----- search(embedding, limit, filter) --------------------------------------------
DefaultLimit == 10

\* the sum over i < n of a[i] * b[i]
RECURSIVE Dot(_, _, _)
Dot(a, b, n) == IF n = 0 THEN 0 ELSE Dot(a, b, n - 1) + a[n] * b[n]

\* A score is the real number num / sqrt(den2), den2 > 0; scores are compared
\* exactly, through their signed squares.
Score(num, den2) == [num |-> num, den2 |-> den2]
SignedSquare(x) == IF x >= 0 THEN x * x ELSE -(x * x)
ScoreLess(s, t) == SignedSquare(s.num) * t.den2 < SignedSquare(t.num) * s.den2

\* variant: no test for a zero norm (the quotient 0 / 0)
cosineSimilarityUnguarded(a, b) ==
    Score(Dot(a, b, Len(a)), Dot(a, a, Len(a)) * Dot(b, b, Len(b)))

\* cosineSimilarity(a, b) past its length test: 0 when a norm is 0, else
\* dotProduct / (sqrt(normA) * sqrt(normB))
cosineSimilarity(a, b) ==
    LET dotProduct == Dot(a, b, Len(a))
        normA == Dot(a, a, Len(a))
        normB == Dot(b, b, Len(b))
    IN IF normA = 0 \/ normB = 0 THEN Score(0, 1) ELSE Score(dotProduct, normA * normB)

\* results.sort((a, b) => b.score - a.score): stable, descending
RECURSIVE InsertByScore(_, _)
InsertByScore(sorted, r) ==
    IF sorted = <<>> THEN <<r>>
    ELSE IF ScoreLess(Head(sorted).score, r.score) THEN <<r>> \o sorted
    ELSE <<Head(sorted)>> \o InsertByScore(Tail(sorted), r)
RECURSIVE SortByScore(_, _)
SortByScore(results, n) ==
    IF n = 0 THEN <<>> ELSE InsertByScore(SortByScore(results, n - 1), results[n])

\* Array.prototype.slice(0, limit): a negative limit counts from the end
Slice(s, limit) ==
    LET end == IF limit < 0
               THEN (IF Len(s) + limit > 0 THEN Len(s) + limit ELSE 0)
               ELSE (IF limit < Len(s) THEN limit ELSE Len(s))
    IN SubSeq(s, 1, end)

\* metadata[key]: undefined when the key is missing. The values of extra keys are
\* coded as positive numbers, Undefined is the value undefined.
MetaGet(metadata, key) == IF key \in DOMAIN metadata THEN metadata[key] ELSE Undefined

StandardKeys == {"tags", "source", "fromDate", "toDate"}
SeqRange(q) == {q[i] : i \in 1..Len(q)}

\* variant: every tag of the filter is required
hasEveryTag(metadata, filter) ==
    \A i \in 1..Len(filter.tags) : filter.tags[i] \in SeqRange(metadata.tags)

\* filter.tags.some(tag => metadata.tags.includes(tag))
hasMatchingTag(metadata, filter) ==
    \E i \in 1..Len(filter.tags) : filter.tags[i] \in SeqRange(metadata.tags)

\* matchesFilter(item, filter); `x && ...` skips a clause whose value is falsy
\* ("" or 0), and a comparison with a missing (undefined) timestamp is false
matchesFilter(item, filter) ==
    LET metadata == item.metadata
    IN /\ ("tags" \in DOMAIN filter /\ Len(filter.tags) > 0)
              => /\ "tags" \in DOMAIN metadata
                 /\ hasMatchingTag(metadata, filter)
       /\ ("source" \in DOMAIN filter /\ filter.source # "")
              => ("source" \in DOMAIN metadata /\ metadata.source = filter.source)
       /\ ("fromDate" \in DOMAIN filter /\ filter.fromDate # 0)
              => ~("timestamp" \in DOMAIN metadata /\ metadata.timestamp < filter.fromDate)
       /\ ("toDate" \in DOMAIN filter /\ filter.toDate # 0)
              => ~("timestamp" \in DOMAIN metadata /\ metadata.timestamp > filter.toDate)
       /\ \A key \in (DOMAIN filter) \ StandardKeys :
              ~(MetaGet(metadata, key) # filter[key])

\* `filter && !this.matchesFilter(item, filter)`: the items that are scored
IsCandidate(item, arg) == "filter" \in DOMAIN arg => matchesFilter(item, arg.filter)
Candidates(m, arg) == SelectSeq(MapValues(m), LAMBDA item : IsCandidate(item, arg))

\* variant: the scored list is cut to the limit before the filter is applied
searchTruncatesFirst(m, arg) ==
    LET limit == IF "limit" \in DOMAIN arg THEN arg.limit ELSE DefaultLimit
        values == MapValues(m)
        scored == [i \in 1..Len(values) |->
                      [item |-> values[i],
                       score |-> IF Len(arg.embedding) = Len(values[i].embedding)
                                 THEN cosineSimilarity(arg.embedding, values[i].embedding)
                                 ELSE Score(0, 1)]]
        cut == Slice(SortByScore(scored, Len(scored)), limit)
    IN IF \E i \in 1..Len(values) : /\ IsCandidate(values[i], arg)
                                     /\ Len(arg.embedding) # Len(values[i].embedding)
       THEN [status |-> "VectorStoreError", results |-> <<>>]
       ELSE [status |-> "ok",
             results |-> SelectSeq(cut, LAMBDA r : IsCandidate(r.item, arg))]

\* variant: an item of another dimension is skipped instead of raising
searchSkipsMismatch(m, arg) ==
    LET limit == IF "limit" \in DOMAIN arg THEN arg.limit ELSE DefaultLimit
        candidates == SelectSeq(Candidates(m, arg),
                                LAMBDA item : Len(item.embedding) = Len(arg.embedding))
        results == [i \in 1..Len(candidates) |->
                       [item |-> candidates[i],
                        score |-> cosineSimilarity(arg.embedding, candidates[i].embedding)]]
    IN [status |-> "ok", results |-> Slice(SortByScore(results, Len(results)), limit)]

\* a clause of the filter reads a property of item.metadata
ReadsMetadata(filter) ==
    \/ "tags" \in DOMAIN filter /\ Len(filter.tags) > 0
    \/ "source" \in DOMAIN filter /\ filter.source # ""
    \/ "fromDate" \in DOMAIN filter /\ filter.fromDate # 0
    \/ "toDate" \in DOMAIN filter /\ filter.toDate # 0
    \/ (DOMAIN filter) \ StandardKeys # {}

\* What the body of search's loop throws for one item, or "none". An item that
\* was loaded from a snapshot can lack metadata or embedding: reading a property
\* of undefined is a TypeError.
Thrown(item, arg) ==
    IF "filter" \in DOMAIN arg /\ "metadata" \notin DOMAIN item /\ ReadsMetadata(arg.filter)
    THEN "TypeError"
    ELSE IF ~IsCandidate(item, arg) THEN "none"
    ELSE IF "embedding" \notin DOMAIN item THEN "TypeError"
    ELSE IF Len(arg.embedding) # Len(item.embedding) THEN "VectorStoreError"
    ELSE "none"

\* search: the loop over the items (it ends at the first item for which the body
\* throws), then sort and slice
search(m, arg) ==
    LET limit == IF "limit" \in DOMAIN arg THEN arg.limit ELSE DefaultLimit
        values == MapValues(m)
        throwing == {i \in 1..Len(values) : Thrown(values[i], arg) # "none"}
        first == CHOOSE i \in throwing : \A j \in throwing : i <= j
        candidates == Candidates(m, arg)
        results == [i \in 1..Len(candidates) |->
                       [item |-> candidates[i],
                        score |-> cosineSimilarity(arg.embedding, candidates[i].embedding)]]
    IN IF throwing # {}
       THEN [status |-> Thrown(values[first], arg), results |-> <<>>]
       ELSE [status |-> "ok", results |-> Slice(SortByScore(results, Len(results)), limit)]

\* variant: the sort is applied to the collection, which is left in result order
SearchSortsCollection(arg) ==
    /\ init = "ready" /\ InFlight = {}
    /\ LET r == search(items, arg)
       IN /\ last' = [opId |-> 0, op |-> "search", id |-> Undefined, arg |-> arg,
                      status |-> r.status, value |-> [results |-> r.results],
                      before |-> [store |-> items], overwritten |-> Null, wfail |-> FALSE]
          /\ items' = IF r.status = "ok"
                      THEN [i \in 1..Len(r.results) |->
                               [key |-> ItemId(r.results[i].item), value |-> r.results[i].item]]
                      ELSE items
    /\ UNCHANGED <<persistPath, disk, init, call, nextId, trace>>

\* search has no await: it runs to its result in one step. The caller awaits each
\* operation before it issues the next.
Search(arg) ==
    /\ init = "ready" /\ InFlight = {}
    /\ LET r == search(items, arg)
       IN last' = [opId |-> 0, op |-> "search", id |-> Undefined, arg |-> arg,
                   status |-> r.status, value |-> [results |-> r.results],
                   before |-> [store |-> items], overwritten |-> Null, wfail |-> FALSE]
    /\ UNCHANGED <<items, persistPath, disk, init, call, nextId, trace>>

\* ----- getStats() ---------------------------------------------------------------------
\* A timestamp bound is a number or +/-Infinity.
Finite(n) == [inf |-> 0, n |-> n]
Infinity == [inf |-> 1, n |-> 0]
MinusInfinity == [inf |-> -1, n |-> 0]
\* timestamp < bound and timestamp > bound; with an undefined timestamp (the
\* metadata has no such property) both comparisons are false
LessThan(metadata, bound) ==
    "timestamp" \in DOMAIN metadata /\ (bound.inf = 1 \/ (bound.inf = 0 /\ metadata.timestamp < bound.n))
GreaterThan(metadata, bound) ==
    "timestamp" \in DOMAIN metadata /\ (bound.inf = -1 \/ (bound.inf = 0 /\ metadata.timestamp > bound.n))

\* Set.add on an insertion-ordered Set, and a loop of them
SetAdd(set, x) == IF x \in SeqRange(set) THEN set ELSE Append(set, x)
RECURSIVE SetAddAll(_, _)
SetAddAll(set, xs) == IF xs = <<>> THEN set ELSE SetAddAll(SetAdd(set, Head(xs)), Tail(xs))

\* the loop of getStats over the first n items
RECURSIVE StatsLoop(_, _)
StatsLoop(values, n) ==
    IF n = 0
    THEN [oldestTimestamp |-> Infinity, newestTimestamp |-> MinusInfinity,
          sourcesSet |-> <<>>, tagsSet |-> <<>>]
    ELSE LET acc == StatsLoop(values, n - 1)
             metadata == values[n].metadata
         IN [oldestTimestamp |-> IF LessThan(metadata, acc.oldestTimestamp)
                                 THEN Finite(metadata.timestamp) ELSE acc.oldestTimestamp,
             newestTimestamp |-> IF GreaterThan(metadata, acc.newestTimestamp)
                                 THEN Finite(metadata.timestamp) ELSE acc.newestTimestamp,
             sourcesSet |-> IF "source" \in DOMAIN metadata /\ metadata.source # ""
                            THEN SetAdd(acc.sourcesSet, metadata.source) ELSE acc.sourcesSet,
             tagsSet |-> IF "tags" \in DOMAIN metadata
                         THEN SetAddAll(acc.tagsSet, metadata.tags) ELSE acc.tagsSet]

\* variant: no special case for the empty collection
getStatsOfLoop(m) ==
    LET acc == StatsLoop(MapValues(m), Len(m))
    IN [totalItems |-> Len(m), uniqueSources |-> acc.sourcesSet,
        uniqueTags |-> acc.tagsSet, oldestTimestamp |-> acc.oldestTimestamp,
        newestTimestamp |-> acc.newestTimestamp]

getStats(m) ==
    IF Len(m) = 0
    THEN [totalItems |-> 0, uniqueSources |-> <<>>, uniqueTags |-> <<>>,
          oldestTimestamp |-> Finite(0), newestTimestamp |-> Finite(0)]
    ELSE LET acc == StatsLoop(MapValues(m), Len(m))
         IN [totalItems |-> Len(m), uniqueSources |-> acc.sourcesSet,
             uniqueTags |-> acc.tagsSet, oldestTimestamp |-> acc.oldestTimestamp,
             newestTimestamp |-> acc.newestTimestamp]

\* item.metadata.timestamp of an item without metadata is a TypeError
getStatsThrown(m) ==
    IF \E i \in 1..Len(m) : "metadata" \notin DOMAIN m[i].value THEN "TypeError" ELSE "none"

GetStats ==
    /\ init = "ready" /\ InFlight = {}
    /\ last' = [opId |-> 0, op |-> "getStats", id |-> Undefined, arg |-> Void,
                status |-> IF getStatsThrown(items) = "none" THEN "ok"
                           ELSE getStatsThrown(items),
                value |-> IF getStatsThrown(items) = "none" THEN getStats(items) ELSE Void,
                before |-> [store |-> items], overwritten |-> Null, wfail |-> FALSE]
    /\ UNCHANGED <<items, persistPath, disk, init, call, nextId, trace>>

\* ----- a store that is queried ---------------------------------------------------------
\* The items: three of the store's dimension and one whose embedding is longer
\* (a payload that also carries an id field, that of a snapshot entry).
Apple == [text |-> <<1>>,
          metadata |-> [timestamp |-> 1, source |-> "test", tags |-> <<"fruit">>,
                        category |-> 1],
          embedding |-> getEmbedding(<<1>>)]
Cherry == [text |-> <<1, 1>>,
           metadata |-> [timestamp |-> 2, source |-> "data", tags |-> <<"fruit", "red">>],
           embedding |-> getEmbedding(<<1, 1>>)]
Unsourced == [text |-> <<>>,
              metadata |-> [timestamp |-> 3, source |-> "", tags |-> <<>>, category |-> 2],
              embedding |-> [i \in 1..Dim |-> IF i = 1 THEN -1 ELSE 1]]
Wide == [id |-> 101, text |-> <<2>>,
         metadata |-> [timestamp |-> 0, source |-> "test", tags |-> <<"red">>],
         embedding |-> [i \in 1..(Dim + 1) |-> 1]]
QueryPayloads == {Apple, Wide}

\* the snapshot file an earlier run left
QuerySnapshots ==
    { NoFile,
      File("array", <<Spread(Cherry, [id |-> 101]), Spread(Unsourced, [id |-> 102])>>) }

QueryEmbeddings == {getEmbedding(<<1>>), getEmbedding(<<1, 2>>), getEmbedding(<<>>)}
Limits == {-1, 0, 1, 2}
Filters ==
    { Empty,
      [source |-> "test"], [source |-> ""],
      [tags |-> <<"fruit">>], [tags |-> <<"red", "green">>], [tags |-> <<>>],
      [source |-> "test", tags |-> <<"red">>],
      [fromDate |-> 2], [toDate |-> 0], [fromDate |-> 0], [fromDate |-> 2, toDate |-> 2],
      [category |-> 1], [category |-> Undefined], [source |-> "data", category |-> 1] }

\* search's arguments: every query and limit without a filter, every filter with
\* one query
SearchInputs ==
    {[embedding |-> q, limit |-> k] : q \in {getEmbedding(<<1>>), getEmbedding(<<1, 2>>)},
                                      k \in Limits}
    \cup {[embedding |-> q] : q \in QueryEmbeddings}
    \cup {[embedding |-> getEmbedding(<<1, 2>>), limit |-> DefaultLimit, filter |-> f] :
              f \in Filters}
    \cup {[embedding |-> getEmbedding(<<1, 2>>), limit |-> 1, filter |-> f] :
              f \in {Empty, [source |-> "test"], [tags |-> <<"fruit">>]}}

QueryInit ==
    /\ items = EmptyMap
    /\ persistPath = TRUE
    /\ disk \in QuerySnapshots
    /\ init = "new"
    /\ call = [c \in Calls |-> Idle]
    /\ last = NoRet
    /\ nextId = 1
    /\ trace = [nops |-> 0, lastMut |-> 0, overlap |-> FALSE, wfail |-> FALSE]

\* One caller; every write of the snapshot succeeds (a failed write leaves the
\* collection as a successful one does).
QueryNext ==
    \/ Initialize
    \/ \E item \in QueryPayloads : Add(1, item)
    \/ \E id \in MapKeys(items) : Update(1, id, [metadata |-> Empty])
    \/ \E id \in MapKeys(items) : Delete(1, id)
    \/ Clear(1)
    \/ WriteFileDone(1)
    \/ \E arg \in SearchInputs : Search(arg)
    \/ GetStats

QuerySpec == QueryInit /\ [][QueryNext]_vars

\* ----- get, searchByText, repeated initialize ---------------------------------------------
\* how an operation that awaits nothing of the store's own ended
Ended(op, id, arg, status, value) ==
    [opId |-> 0, op |-> op, id |-> id, arg |-> arg, status |-> status, value |-> value,
     before |-> [store |-> items], overwritten |-> Null, wfail |-> FALSE]

Get(id) ==
    /\ init = "ready" /\ InFlight = {}
    /\ last' = Ended("get", id, Void, "ok", get(items, id))
    /\ UNCHANGED <<items, persistPath, disk, init, call, nextId, trace>>

\* what the provider's getEmbedding does: it resolves, rejects with an
\* EmbeddingError, or rejects with another value
ProviderOutcomes == {"resolves", "EmbeddingError", "Error"}

\* variant: the provider's error is passed on as it is
searchByTextRethrows(thrown) == thrown
\* catch (error) { throw new VectorStoreError(...) }
searchByTextCatch(thrown) == "VectorStoreError"

\* searchByText: `return this.search(...)` is not awaited inside the try, so what
\* search raises is passed on as it is
searchByText(m, text, arg, outcome) ==
    IF outcome # "resolves"
    THEN [status |-> searchByTextCatch(outcome), results |-> <<>>]
    ELSE search(m, Spread(arg, [embedding |-> getEmbedding(text)]))

SearchByText(text, arg, outcome) ==
    /\ init = "ready" /\ InFlight = {}
    /\ LET r == searchByText(items, text, arg, outcome)
       IN last' = Ended("searchByText", Undefined,
                        Spread(arg, [text |-> text, provider |-> outcome]),
                        r.status, [results |-> r.results])
    /\ UNCHANGED <<items, persistPath, disk, init, call, nextId, trace>>

\* initialize() called on a store that was initialized before
InitializeAgain ==
    /\ init # "new" /\ InFlight = {}
    /\ \E outcome \in (IF persistPath THEN {"ready", "VectorStoreError"} ELSE {"ready"}) :
           LET m == IF persistPath /\ outcome = "ready"
                    THEN InitializeItems(items, disk) ELSE items
           IN /\ init' = outcome
              /\ items' = m
              /\ last' = Ended("initialize", Undefined,
                               [after |-> last.op, init |-> init, disk |-> disk],
                               IF outcome = "ready" THEN "ok" ELSE outcome,
                               [store |-> m])
    /\ UNCHANGED <<persistPath, disk, call, nextId, trace>>

\* ----- the caller's references ------------------------------------------------------------
\* add returns the object it stored and shares metadata, tags and embedding with
\* the object it was given; get and update return the stored object. An
\* assignment by the caller through such a reference changes the stored item.
Assignments == {"returned.text", "given.metadata.source"}
Assigned(item, assignment) ==
    IF assignment = "returned.text"
    THEN Spread(item, [text |-> <<9>>])
    ELSE Spread(item, [metadata |-> Spread(item.metadata, [source |-> "changed"])])

AssignThroughReference(assignment) ==
    /\ init = "ready" /\ InFlight = {}
    /\ last.op \in {"add", "get", "update"} /\ last.status = "ok" /\ ~IsNull(last.value)
    /\ assignment = "given.metadata.source" => last.op = "add"
    /\ get(items, last.id) = last.value
    /\ items' = MapSet(items, last.id, Assigned(last.value, assignment))
    /\ last' = Ended("assign", last.id, [assignment |-> assignment], "ok", Void)
    /\ UNCHANGED <<persistPath, disk, init, call, nextId, trace>>

\* ----- OllamaEmbeddingProvider.getEmbedding -------------------------------------------------
\* What fetch and the response do. fetch rejects with an Error or with another
\* value, or resolves with a response: ok or not, whose body is not JSON
\* ("invalid"), is the JSON null, or is a JSON object `data`. A value of
\* data.embedding is described by whether it is truthy, whether it is an array,
\* and its elements.
OLLAMA_DEFAULT_DIMENSIONS == 384
\* OllamaEmbeddingProvider.getDimensions(): the same for every model name
OllamaGetDimensions == OLLAMA_DEFAULT_DIMENSIONS

Json(kind, data) == [kind |-> kind, data |-> data]
EmbeddingValue(truthy, isArray, elements) ==
    [truthy |-> truthy, isArray |-> isArray, elements |-> elements]
Bodies ==
    { Json("invalid", Empty), Json("null", Empty),
      Json("object", [error |-> "model not found"]),
      Json("object", [embedding |-> EmbeddingValue(FALSE, FALSE, <<>>)]),   \* 0, "" or null
      Json("object", [embedding |-> EmbeddingValue(TRUE, FALSE, <<>>)]),    \* a string, an object
      Json("object", [embedding |-> EmbeddingValue(TRUE, TRUE, <<>>)]),     \* []
      Json("object", [embedding |-> EmbeddingValue(TRUE, TRUE, getEmbedding(<<1, 2>>))]),
      Json("object", [embedding |-> EmbeddingValue(TRUE, TRUE,
                                        [i \in 1..OLLAMA_DEFAULT_DIMENSIONS |-> i])]) }
Responses ==
    {[fetch |-> "rejects", thrown |-> t] : t \in {"Error", "string"}}
    \cup {[fetch |-> "resolves", ok |-> ok, body |-> b] : ok \in BOOLEAN, b \in Bodies}

\* what is thrown inside the try block, or "none"
OllamaThrown(r) ==
    IF r.fetch = "rejects" THEN r.thrown
    ELSE IF ~r.ok THEN "Error"                      \* also when json() or text() throws
    ELSE IF r.body.kind = "invalid" THEN "SyntaxError"          \* response.json()
    ELSE IF r.body.kind = "null" THEN "TypeError"               \* data.embedding of null
    ELSE IF "embedding" \notin DOMAIN r.body.data THEN "Error"
    ELSE IF ~r.body.data.embedding.truthy \/ ~r.body.data.embedding.isArray THEN "Error"
    ELSE "none"

\* variant: only instances of Error are wrapped
OllamaCatchErrors(thrown) == IF thrown = "string" THEN thrown ELSE "EmbeddingError"
\* the catch block: both branches throw an EmbeddingError
OllamaCatch(thrown) == "EmbeddingError"

\* (a call made before the store is initialized)
OllamaGetEmbedding(r) ==
    /\ init = "new"
    /\ last' = IF OllamaThrown(r) = "none"
               THEN Ended("ollama.getEmbedding", Undefined, r, "ok",
                          [embedding |-> r.body.data.embedding.elements])
               ELSE Ended("ollama.getEmbedding", Undefined, r,
                          OllamaCatch(OllamaThrown(r)), Void)
    /\ UNCHANGED <<items, persistPath, disk, init, call, nextId, trace>>

\* ----- createEmbeddingProvider(config) ----------------------------------------------------------
\* config.embeddingProvider and config.geminiApiKey ("" stands for an empty or
\* absent key)
Configs ==
    {[embeddingProvider |-> p, geminiApiKey |-> k] :
         p \in {"gemini", "ollama", "invalid"}, k \in {"", "test-api-key"}}

\* variant: an unsupported provider name falls back to ollama
createEmbeddingProviderLenient(config) ==
    IF config.embeddingProvider = "gemini"
    THEN IF config.geminiApiKey = ""
         THEN [status |-> "ConfigError", provider |-> Empty]
         ELSE [status |-> "ok", provider |-> [name |-> "gemini"]]
    ELSE [status |-> "ok", provider |-> [name |-> "ollama"]]

createEmbeddingProvider(config) ==
    IF config.embeddingProvider = "gemini"
    THEN IF config.geminiApiKey = ""
         THEN [status |-> "ConfigError", provider |-> Empty]
         ELSE [status |-> "ok", provider |-> [name |-> "gemini"]]
    ELSE IF config.embeddingProvider = "ollama"
    THEN [status |-> "ok", provider |-> [name |-> "ollama"]]
    ELSE [status |-> "ConfigError", provider |-> Empty]

\* initializeMemoryModule creates the provider before it initializes the store
CreateEmbeddingProvider(config) ==
    /\ init = "new"
    /\ LET r == createEmbeddingProvider(config)
       IN last' = Ended("createEmbeddingProvider", Undefined, config, r.status,
                        [provider |-> r.provider])
    /\ UNCHANGED <<items, persistPath, disk, init, call, nextId, trace>>

\* ----- one caller at the store's boundary ------------------------------------------------------
BoundarySearches ==
    { [embedding |-> getEmbedding(<<1>>)],
      [embedding |-> getEmbedding(<<1>>), limit |-> 1, filter |-> Empty],
      [embedding |-> getEmbedding(<<1>>), limit |-> 1, filter |-> [source |-> "old"]] }
TextSearches == { Empty, [limit |-> 1, filter |-> [tags |-> <<"kept">>]] }

BoundaryNext ==
    \/ Initialize
    \/ InitializeAgain
    \/ \E item \in AddPayloads : Add(1, item)
    \/ \E id \in IdChoices : Update(1, id, [text |-> <<2>>])
    \/ UpdateEmbedded(1)
    \/ UpdateEmbeddingFailed(1)
    \/ \E id \in IdChoices : Delete(1, id)
    \/ Clear(1)
    \/ PersistSkipped(1)
    \/ WriteFileDone(1)
    \/ \E id \in IdChoices : Get(id)
    \/ \E arg \in BoundarySearches : Search(arg)
    \/ \E arg \in TextSearches, outcome \in ProviderOutcomes : SearchByText(<<1>>, arg, outcome)
    \/ GetStats
    \/ \E assignment \in Assignments : AssignThroughReference(assignment)
    \/ \E r \in Responses : OllamaGetEmbedding(r)
    \/ \E config \in Configs : CreateEmbeddingProvider(config)

\* the snapshot files of this caller: none, one that does not parse, and the two
\* arrays with an entry that is no item
BoundarySnapshots ==
    { NoFile, Garbage, File("array", <<StoredItem, Null>>), File("array", <<[text |-> <<1>>]>>) }

BoundaryInit ==
    /\ items = EmptyMap
    /\ persistPath \in BOOLEAN
    /\ disk \in (IF persistPath THEN BoundarySnapshots ELSE {NoFile})
    /\ init = "new"
    /\ call = [c \in Calls |-> Idle]
    /\ last = NoRet
    /\ nextId = 1
    /\ trace = [nops |-> 0, lastMut |-> 0, overlap |-> FALSE, wfail |-> FALSE]

BoundarySpec == BoundaryInit /\ [][BoundaryNext]_vars

\* ----- a store that is initialized again ----------------------------------------------------------
\* One caller, whose snapshot writes succeed or fail, calls initialize() again
\* between its operations.
RestartNext ==
    \/ Initialize
    \/ InitializeAgain
    \/ \E item \in AddPayloads : Add(1, item)
    \/ \E id \in IdChoices : Update(1, id, [text |-> <<2>>])
    \/ UpdateEmbedded(1)
    \/ UpdateEmbeddingFailed(1)
    \/ \E id \in IdChoices : Delete(1, id)
    \/ Clear(1)
    \/ PersistSkipped(1)
    \/ WriteFileDone(1)
    \/ WriteFileFailed(1)
    \/ \E id \in IdChoices : Get(id)
    \/ Search([embedding |-> getEmbedding(<<1>>)])

RestartSpec == Init /\ [][RestartNext]_vars

\* ----- scoring ---------------------------------------------------------------------------------
\* Vectors of the store's dimension: the zero vector, a unit vector, two that
\* are orthogonal to each other, and a multiple of another unit vector.
Vectors ==
    { [i \in 1..Dim |-> 0],
      [i \in 1..Dim |-> IF i = 1 THEN 1 ELSE 0],
      [i \in 1..Dim |-> 1],
      [i \in 1..Dim |-> IF i = 1 THEN -1 ELSE 1],
      [i \in 1..Dim |-> IF i = Dim THEN 2 ELSE 0] }
ScorePayloads ==
    {[text |-> <<1>>, metadata |-> [timestamp |-> 1, source |-> "test", tags |-> <<>>],
      embedding |-> v] : v \in Vectors}

\* One caller adds items with these embeddings and searches with each of them.
ScoreNext ==
    \/ Initialize
    \/ \E item \in ScorePayloads : Add(1, item)
    \/ WriteFileDone(1)
    \/ \E q \in Vectors : Search([embedding |-> q])

ScoreSpec == QueryInit /\ [][ScoreNext]_vars

\* ===== properties ====================================================================

Range(q) == {q[i] : i \in 1..Len(q)}

\* no operation changed the collection after operation `opId` did
LastToMutate(opId) == trace.lastMut = opId

\* C1: the item add returns carries the payload's text, metadata and embedding,
\* and as long as no other mutation followed, get(r.id) is equal to it.
C1_AddRoundTrip ==
    last.op = "add" =>
        /\ last.status = "ok"
        /\ last.value.text = last.arg.text
        /\ last.value.metadata = last.arg.metadata
        /\ last.value.embedding = last.arg.embedding
        /\ LastToMutate(last.opId) => get(items, last.value.id) = last.value

C1_Witness ==
    /\ last.op = "add" /\ LastToMutate(last.opId)
    /\ MapHas(items, last.value.id)
    /\ "custom" \in DOMAIN last.arg.metadata

\* C2 (as claimed): an update that supplies a text and no embedding and succeeds
\* returns (and stores) the new text with the provider's embedding of that text,
\* for every text, the empty string included.
C2_UpdateReembeds ==
    ( /\ last.op = "update" /\ last.status = "ok" /\ ~IsNull(last.value)
      /\ "text" \in DOMAIN last.arg /\ "embedding" \notin DOMAIN last.arg )
    => /\ last.value.text = last.arg.text
       /\ last.value.embedding = getEmbedding(last.arg.text)
       /\ LastToMutate(last.opId) => get(items, last.id) = last.value

\* C3 (as claimed): after an update with a metadata patch p, whatever its keys, the
\* metadata maps each key of p to p's value and each other key of the previous
\* metadata to its previous value.
C3_MetadataMerged ==
    ( /\ last.op = "update" /\ last.status = "ok" /\ ~IsNull(last.value)
      /\ "metadata" \in DOMAIN last.arg )
    => LET p == last.arg.metadata
           old == last.before.metadata
           new == last.value.metadata
       IN /\ \A k \in DOMAIN p : k \in DOMAIN new /\ new[k] = p[k]
          /\ \A k \in (DOMAIN old) \ (DOMAIN p) : k \in DOMAIN new /\ new[k] = old[k]

\* C4: when the provider call of update fails, update raises a VectorStoreError and
\* the collection, the snapshot file and every other call (so no write is issued)
\* are as they were.
C4_UpdateAllOrNothing ==
    [][\A c \in Calls :
          (call[c].pc = "embedding" /\ call'[c].pc = "idle")
          => /\ last'.opId = call[c].opId
             /\ last'.status = "VectorStoreError"
             /\ items' = items
             /\ disk' = disk
             /\ \A d \in Calls \ {c} : call'[d] = call[d]]_vars

C4_Witness ==
    /\ last.op = "update" /\ last.status = "VectorStoreError"
    /\ get(items, last.id) = last.before

\* C5: delete(id) returns true exactly when id was stored at the call, never raises,
\* removes id and nothing else; once it has returned, and nothing else has changed
\* the collection meanwhile, get(id) is null.
DeleteCalled(c) ==
    /\ call[c].pc = "idle" /\ trace'.nops = trace.nops + 1
    /\ \/ call'[c].pc = "persisting" /\ call'[c].op = "delete"
       \/ call'[c].pc = "idle" /\ last'.op = "delete" /\ last'.opId = trace'.nops
DeleteResult(c) == IF call'[c].pc = "persisting" THEN call'[c] ELSE last'
DeleteReturned(c) ==
    call[c].pc = "persisting" /\ call[c].op = "delete" /\ call'[c].pc = "idle"

C5_Delete ==
    [][\A c \in Calls :
          /\ DeleteCalled(c) =>
                LET r == DeleteResult(c)
                IN /\ r.value = JSBool(MapHas(items, r.id))
                   /\ ~MapHas(items', r.id)
                   /\ MapKeys(items') = MapKeys(items) \ {r.id}
                   /\ \A k \in MapKeys(items') : get(items', k) = get(items, k)
                   /\ call'[c].pc = "idle" => last'.status = "ok" /\ last'.value = JSBool(FALSE)
          /\ DeleteReturned(c) =>
                /\ last'.status = "ok" /\ last'.value = JSBool(TRUE)
                /\ LastToMutate(call[c].opId) => IsNull(get(items', call[c].id))]_vars

C5_Witness ==
    /\ last.op = "delete" /\ last.value = JSBool(TRUE) /\ LastToMutate(last.opId)
    /\ IsNull(get(items, last.id)) /\ items # EmptyMap

\* C6: an update that was suspended at the provider while delete(id) or clear()
\* removed its item still commits when the provider answers: the updated item is
\* stored under id again, is part of the data handed to the snapshot write, is what
\* the completed write leaves in the file, and is what update returns.
Revived(u) == u.op = "update" /\ ~IsNull(u.before) /\ IsNull(u.overwritten)

C6_UpdateAfterDeleteWins ==
    [][\A c \in Calls :
          /\ ( /\ call[c].pc = "embedding" /\ call'[c].pc # "embedding"
               /\ ~MapHas(items, call[c].id)
               /\ ~(last'.opId = call[c].opId /\ last'.status = "VectorStoreError") )
             => /\ call'[c].pc = "persisting" /\ Revived(call'[c])
                /\ call'[c].value.text = call[c].arg.text
                /\ get(items', call[c].id) = call'[c].value
                /\ persistPath => call'[c].value \in Range(call'[c].data.entries)
          /\ ( /\ call[c].pc = "persisting" /\ Revived(call[c])
               /\ call'[c].pc = "idle" )
             => /\ last'.status = "ok" /\ last'.value = call[c].value
                /\ (persistPath /\ ~last'.wfail)
                       => disk'.kind = "array" /\ call[c].value \in Range(disk'.entries)]_vars

\* delete has returned true for the id, and the update that was in flight has
\* committed after it
C6_Witness ==
    \E c \in Calls :
        /\ call[c].pc = "persisting" /\ Revived(call[c])
        /\ last.op = "delete" /\ last.id = call[c].id /\ last.value = JSBool(TRUE)
        /\ last.opId > call[c].opId
        /\ get(items, call[c].id) = call[c].value

\* C7: the item an update stores when its provider call completes is built from
\* the item as it was when that update started and from its own patch alone: text
\* and embedding from the patch, each metadata key from the patch if named there,
\* otherwise from the item at the start; what another update stored in between
\* is overwritten.
C7_LastUpdateWins ==
    [][\A c \in Calls :
          (call[c].pc = "embedding" /\ call'[c].pc = "persisting")
          => LET u == call[c]
                 new == get(items', u.id)
                 named == IF "metadata" \in DOMAIN u.arg THEN DOMAIN u.arg.metadata ELSE {}
             IN /\ new = call'[c].value
                /\ new.id = u.id
                /\ new.text = u.arg.text
                /\ new.embedding = getEmbedding(u.arg.text)
                /\ DOMAIN new.metadata = (DOMAIN u.before.metadata) \cup named
                /\ \A k \in DOMAIN new.metadata :
                       new.metadata[k] = IF k \in named THEN u.arg.metadata[k]
                                         ELSE u.before.metadata[k]]_vars

\* a second update stored another text and source while this one was suspended;
\* this one has now completed and neither is retained
C7_Witness ==
    \E c \in Calls :
        /\ call[c].pc = "persisting" /\ call[c].op = "update"
        /\ call[c].arg = [text |-> <<2>>]
        /\ ~IsNull(call[c].overwritten)
        /\ call[c].overwritten.text = <<1, 2>>
        /\ call[c].overwritten.metadata.source = "edit"
        /\ call[c].before.metadata.source # "edit"
        /\ get(items, call[c].id).metadata.source = call[c].before.metadata.source
        /\ get(items, call[c].id).text = <<2>>

\* C8: on a store with a persistence path, when every operation so far was awaited
\* before the next was issued and every snapshot write succeeded, a fresh store
\* initialized from the file holds exactly the items of this store.
Awaited == ~trace.overlap /\ InFlight = {}
Restarted == InitializeItems(EmptyMap, disk)

C8_PersistenceRoundTrip ==
    (persistPath /\ init = "ready" /\ Awaited /\ ~trace.wfail)
    => /\ MapEntries(Restarted) = MapEntries(items)
       /\ \A id \in MapKeys(items) \cup IdChoices : get(Restarted, id) = get(items, id)

C8_Witness ==
    /\ persistPath /\ init = "ready" /\ Awaited /\ ~trace.wfail
    /\ trace.nops >= 2 /\ Len(items) >= 2
    /\ disk = JSONStringify(MapValues(items))

\* C9: an operation whose snapshot write failed raises nothing and returns its
\* normal value, and the collection keeps the mutation (as long as no later
\* operation changed it).
C9_PersistFailureAbsorbed ==
    (last.op # "none" /\ last.wfail)
    => /\ last.status = "ok"
       /\ last.op = "add" =>
              /\ last.value = Spread(last.arg, [id |-> last.id])
              /\ LastToMutate(last.opId) => get(items, last.id) = last.value
       /\ last.op = "update" =>
              /\ ~IsNull(last.value) /\ last.value.id = last.id
              /\ LastToMutate(last.opId) => get(items, last.id) = last.value
       /\ last.op = "delete" =>
              /\ last.value = JSBool(TRUE)
              /\ LastToMutate(last.opId) => IsNull(get(items, last.id))
       /\ last.op = "clear" =>
              /\ last.value = Void
              /\ LastToMutate(last.opId) => items = EmptyMap

C9_Witness ==
    /\ last.op = "add" /\ last.wfail /\ LastToMutate(last.opId)
    /\ get(items, last.id) = last.value
    /\ Restarted # items

\* C10 (as claimed): after initialize() on a new store with a persistence path, a
\* snapshot that is absent, unreadable or malformed (invalid JSON, not an array,
\* or an array with an entry that is no usable item) leaves the store empty.
Usable(entry) ==
    ~IsNull(entry) /\ {"id", "text", "metadata", "embedding"} \subseteq DOMAIN entry
Malformed(file) ==
    \/ file.kind \in {"unreadable", "invalid", "nonarray"}
    \/ file.kind = "array" /\ \E e \in Range(file.entries) : ~Usable(e)

C10_InitializeDiscardsMalformed ==
    (persistPath /\ init = "ready" /\ trace.nops = 0
        /\ (disk.kind = "absent" \/ Malformed(disk)))
    => items = EmptyMap

\* ----- search ---------------------------------------------------------------------------
\* the last operation to end was a search that returned a list
SearchReturned == last.op = "search" /\ last.status = "ok"
\* the limit that search applied
LimitOf(arg) == IF "limit" \in DOMAIN arg THEN arg.limit ELSE DefaultLimit
\* the items that were stored when the search ran
SearchedItems == MapValues(last.before.store)
ScoreOf(item) == cosineSimilarity(last.arg.embedding, item.embedding)
IsSortedByScore(results) ==
    \A i, j \in 1..Len(results) : i < j => ~ScoreLess(results[i].score, results[j].score)

\* C11 (as claimed): a search returns at most k results for every integer limit k
\* given (none when k is negative, at most 10 when no limit is given), all the
\* candidates when k is at least their number, and the results are in
\* non-increasing order of score.
C11_AtMostLimitSorted ==
    SearchReturned =>
        LET results == last.value.results
            k == LimitOf(last.arg)
            n == Len(Candidates(last.before.store, last.arg))
        IN /\ Len(results) <= (IF k > 0 THEN k ELSE 0)
           /\ k >= n => Len(results) = n
           /\ IsSortedByScore(results)

\* C12: every result of a search is a stored item that passes the filter, no item
\* is returned twice, every result scores at least as high as every passing item
\* that was left out, and a passing item is left out only if at least k results
\* score at least as high as it does.
IsResult(item) == \E j \in 1..Len(last.value.results) : last.value.results[j].item = item
C12_FilterBeforeRanking ==
    SearchReturned =>
        LET results == last.value.results
            k == LimitOf(last.arg)
        IN /\ \A j \in 1..Len(results) :
                  /\ \E i \in 1..Len(SearchedItems) : SearchedItems[i] = results[j].item
                  /\ IsCandidate(results[j].item, last.arg)
                  /\ results[j].score = ScoreOf(results[j].item)
           /\ \A i, j \in 1..Len(results) : i # j => results[i].item.id # results[j].item.id
           /\ \A i \in 1..Len(SearchedItems) :
                  LET x == SearchedItems[i]
                  IN (IsCandidate(x, last.arg) /\ ~IsResult(x)) =>
                        /\ Len(results) >= k
                        /\ \A j \in 1..Len(results) :
                               ~ScoreLess(results[j].score, ScoreOf(x))

\* a search with limit 1 and a filter returned a passing item although a stored
\* item that fails the filter scores higher, and left another passing item out
C12_Witness ==
    /\ SearchReturned /\ "filter" \in DOMAIN last.arg /\ LimitOf(last.arg) = 1
    /\ Len(last.value.results) = 1
    /\ \E i \in 1..Len(SearchedItems) :
           /\ ~IsCandidate(SearchedItems[i], last.arg)
           /\ Len(SearchedItems[i].embedding) = Len(last.arg.embedding)
           /\ ScoreLess(last.value.results[1].score, ScoreOf(SearchedItems[i]))
    /\ \E i \in 1..Len(SearchedItems) :
           IsCandidate(SearchedItems[i], last.arg) /\ ~IsResult(SearchedItems[i])

\* C13: a search raises VectorStoreError exactly when a stored item that passes
\* the filter has an embedding of another length than the query; it then returns
\* no list, and the collection is as it was.
C13_DimensionMismatchRaises ==
    last.op = "search" =>
        /\ last.status = "VectorStoreError"
               <=> \E i \in 1..Len(SearchedItems) :
                       /\ IsCandidate(SearchedItems[i], last.arg)
                       /\ Len(SearchedItems[i].embedding) # Len(last.arg.embedding)
        /\ last.status \in {"ok", "VectorStoreError"}
        /\ last.status = "VectorStoreError" => last.value.results = <<>>
        /\ InFlight = {} => items = last.before.store

\* a filtered search failed on a store that also holds items of the query's length
C13_Witness ==
    /\ last.op = "search" /\ last.status = "VectorStoreError" /\ InFlight = {}
    /\ "filter" \in DOMAIN last.arg
    /\ \E i \in 1..Len(SearchedItems) : ~IsCandidate(SearchedItems[i], last.arg)
    /\ \E i \in 1..Len(SearchedItems) :
           Len(SearchedItems[i].embedding) = Len(last.arg.embedding)

\* ----- the filter -----------------------------------------------------------------------
\* the last operation to end was a search with a filter that returned a list
FilteredSearchReturned == SearchReturned /\ "filter" \in DOMAIN last.arg
\* ... and its limit did not cut the list
UncutSearchReturned ==
    SearchReturned /\ LimitOf(last.arg) >= Len(SearchedItems)
Stored(x) == \E i \in 1..Len(SearchedItems) : SearchedItems[i] = x

\* The clauses as they are specified: each clause that the filter gives is enforced.
TagsClause(metadata, filter) ==
    ("tags" \in DOMAIN filter /\ filter.tags # <<>>)
        => /\ "tags" \in DOMAIN metadata
           /\ SeqRange(metadata.tags) \cap SeqRange(filter.tags) # {}
SourceClause(metadata, filter) ==
    "source" \in DOMAIN filter
        => ("source" \in DOMAIN metadata /\ metadata.source = filter.source)
DateClauses(metadata, filter) ==
    /\ "fromDate" \in DOMAIN filter
           => ("timestamp" \in DOMAIN metadata /\ filter.fromDate <= metadata.timestamp)
    /\ "toDate" \in DOMAIN filter
           => ("timestamp" \in DOMAIN metadata /\ metadata.timestamp <= filter.toDate)
ExtraClauses(metadata, filter) ==
    \A key \in (DOMAIN filter) \ StandardKeys :
        key \in DOMAIN metadata /\ metadata[key] = filter[key]

\* C14 (as claimed): a search whose limit does not cut the list returns exactly
\* the stored items that pass every clause its filter gives (tags, source,
\* fromDate, toDate, each extra key), and every stored item when there is no
\* filter or the filter has no clause.
C14_FilterConjunctive ==
    UncutSearchReturned =>
        \A i \in 1..Len(SearchedItems) :
            LET x == SearchedItems[i]
                f == IF "filter" \in DOMAIN last.arg THEN last.arg.filter ELSE Empty
            IN IsResult(x) <=> /\ TagsClause(x.metadata, f)
                               /\ SourceClause(x.metadata, f)
                               /\ DateClauses(x.metadata, f)
                               /\ ExtraClauses(x.metadata, f)

\* C15 (as claimed): with a fromDate and/or a toDate in the filter, 0 included, no
\* result has a timestamp outside a given bound, and a search with only date
\* bounds whose limit does not cut the list returns every stored item whose
\* timestamp is within the bounds.
C15_DateBoundsInclusive ==
    FilteredSearchReturned =>
        LET f == last.arg.filter
        IN /\ \A j \in 1..Len(last.value.results) :
                  DateClauses(last.value.results[j].item.metadata, f)
           /\ (UncutSearchReturned /\ DOMAIN f \subseteq {"fromDate", "toDate"}) =>
                  \A i \in 1..Len(SearchedItems) :
                      DateClauses(SearchedItems[i].metadata, f) => IsResult(SearchedItems[i])

\* C16 (as claimed): a search with a source in its filter, whatever the string,
\* returns only items whose metadata.source equals it.
C16_SourceExact ==
    FilteredSearchReturned =>
        \A j \in 1..Len(last.value.results) :
            SourceClause(last.value.results[j].item.metadata, last.arg.filter)

\* C17: with a non-empty filter.tags every result has a tag that occurs in
\* filter.tags, and a search with only that clause whose limit does not cut the
\* list returns every stored item that has one; with filter.tags empty the
\* search returns what it returns for the same filter without tags.
WithoutTags(arg) ==
    [arg EXCEPT !.filter = [key \in (DOMAIN arg.filter) \ {"tags"} |-> arg.filter[key]]]
C17_TagsAnyOf ==
    FilteredSearchReturned =>
        LET f == last.arg.filter
        IN /\ \A j \in 1..Len(last.value.results) :
                  TagsClause(last.value.results[j].item.metadata, f)
           /\ (UncutSearchReturned /\ DOMAIN f = {"tags"}) =>
                  \A i \in 1..Len(SearchedItems) :
                      TagsClause(SearchedItems[i].metadata, f) => IsResult(SearchedItems[i])
           /\ ("tags" \in DOMAIN f /\ f.tags = <<>>) =>
                  last.value.results = search(last.before.store, WithoutTags(last.arg)).results

\* a search for two tags returned an item that has one of them only, and left
\* out a stored item that has no tags property
C17_Witness ==
    /\ FilteredSearchReturned /\ "tags" \in DOMAIN last.arg.filter
    /\ Len(last.arg.filter.tags) = 2
    /\ \E j \in 1..Len(last.value.results) :
           ~(SeqRange(last.arg.filter.tags)
                 \subseteq SeqRange(last.value.results[j].item.metadata.tags))
    /\ \E i \in 1..Len(SearchedItems) :
           "tags" \notin DOMAIN SearchedItems[i].metadata /\ ~IsResult(SearchedItems[i])

\* C18 (as claimed): for every filter key other than tags, source, fromDate and
\* toDate, whatever its value, every result has that key in its metadata with
\* the filter's value.
C18_ExtraKeysExact ==
    FilteredSearchReturned =>
        \A j \in 1..Len(last.value.results) :
            ExtraClauses(last.value.results[j].item.metadata, last.arg.filter)

\* ----- getStats -------------------------------------------------------------------------
StatsReturned == last.op = "getStats"
NoDuplicates(q) == \A i, j \in 1..Len(q) : i # j => q[i] # q[j]
AtMost(a, b) == a.inf < b.inf \/ (a.inf = b.inf /\ a.n <= b.n)

\* C19: getStats on an empty collection returns without error, with totalItems 0,
\* no sources, no tags and both timestamps 0 (finite).
C19_EmptyStats ==
    (StatsReturned /\ Len(last.before.store) = 0) =>
        /\ last.status = "ok"
        /\ last.value = [totalItems |-> 0, uniqueSources |-> <<>>, uniqueTags |-> <<>>,
                         oldestTimestamp |-> Finite(0), newestTimestamp |-> Finite(0)]

\* getStats ran on a collection that an operation had emptied (the snapshot
\* written last is the empty array)
C19_Witness ==
    /\ StatsReturned /\ Len(last.before.store) = 0 /\ InFlight = {}
    /\ trace.lastMut > 0
    /\ disk = File("array", <<>>)

\* C20 (as claimed): getStats on a non-empty collection returns the number of
\* items, each distinct metadata.source value of the items once, each tag of the
\* items once, the minimum and the maximum of the items' timestamps, and
\* oldestTimestamp <= newestTimestamp.
C20_Stats ==
    (StatsReturned /\ Len(last.before.store) > 0) =>
        LET values == MapValues(last.before.store)
            metas == {values[i].metadata : i \in 1..Len(values)}
            sources == {md.source : md \in {x \in metas : "source" \in DOMAIN x}}
            tags == UNION {SeqRange(md.tags) : md \in {x \in metas : "tags" \in DOMAIN x}}
            stamps == {md.timestamp : md \in {x \in metas : "timestamp" \in DOMAIN x}}
            stats == last.value
        IN /\ stats.totalItems = Len(values)
           /\ SeqRange(stats.uniqueSources) = sources /\ NoDuplicates(stats.uniqueSources)
           /\ SeqRange(stats.uniqueTags) = tags /\ NoDuplicates(stats.uniqueTags)
           /\ stamps # {} =>
                 /\ stats.oldestTimestamp.inf = 0 /\ stats.newestTimestamp.inf = 0
                 /\ stats.oldestTimestamp.n \in stamps /\ stats.newestTimestamp.n \in stamps
                 /\ \A t \in stamps : /\ stats.oldestTimestamp.n <= t
                                      /\ t <= stats.newestTimestamp.n
           /\ AtMost(stats.oldestTimestamp, stats.newestTimestamp)

\* ----- update: not found, id ----------------------------------------------------------
\* C21: an update of an id that is not stored ends at once: it is never waiting
\* for the embedding provider or for a write, and it returns null without error.
C21_UpdateNotFound ==
    /\ \A c \in Calls :
           (call[c].pc # "idle" /\ call[c].op = "update") => call[c].id # NonexistentId
    /\ (last.op = "update" /\ last.id = NonexistentId) =>
           (last.status = "ok" /\ IsNull(last.value))

\* an update with a new text of an absent id returned, on a store that holds items
C21_Witness ==
    /\ last.op = "update" /\ last.id = NonexistentId
    /\ "text" \in DOMAIN last.arg /\ "embedding" \notin DOMAIN last.arg
    /\ Len(items) > 0

\* C22: an update that returns an item returns it with the id it was called with,
\* also when the patch carries an id, and stores it under that id; every stored
\* item that has an id is stored under it, and none is stored under a patch's id.
C22_UpdateKeepsId ==
    /\ (last.op = "update" /\ last.status = "ok" /\ ~IsNull(last.value)) =>
           /\ last.value.id = last.id
           /\ LastToMutate(last.opId) => get(items, last.id) = last.value
    /\ \A e \in MapEntries(items) : ItemId(e.value) = e.key
    /\ ~MapHas(items, PayloadId)

\* an update whose patch carries another id returned the item, and it is stored
C22_Witness ==
    /\ last.op = "update" /\ last.status = "ok" /\ ~IsNull(last.value)
    /\ "id" \in DOMAIN last.arg /\ last.arg.id # last.id
    /\ "embedding" \notin DOMAIN last.arg
    /\ LastToMutate(last.opId) /\ MapHas(items, last.id)

\* C23 (as claimed): in every reachable state every stored item has an embedding
\* of the provider's getDimensions() components.
C23_UniformDimensions ==
    \A e \in MapEntries(items) : Len(e.value.embedding) = getDimensions

\* ----- clear, initialize ------------------------------------------------------------------
\* C24: when clear has returned, no operation is in flight and none changed the
\* collection after it, get returns null for every id, every search returns the
\* empty list, getStats reports no item, and, with a persistence path and a
\* successful write, the snapshot is the empty array, from which a restarted
\* store loads nothing.
C24_ClearEmpties ==
    (last.op = "clear" /\ InFlight = {} /\ LastToMutate(last.opId)) =>
        /\ last.status = "ok"
        /\ \A id \in IdChoices \cup (1..MaxAdds) \cup {StoredItem.id, Undefined} :
               IsNull(get(items, id))
        /\ \A arg \in SearchInputs :
               search(items, arg) = [status |-> "ok", results |-> <<>>]
        /\ getStats(items).totalItems = 0
        /\ (persistPath /\ ~last.wfail) =>
               (disk = JSONStringify(<<>>) /\ Restarted = EmptyMap)

\* clear returned after an item had been added, and its write succeeded after
\* the snapshot had held items
C24_Witness ==
    /\ last.op = "clear" /\ InFlight = {} /\ LastToMutate(last.opId)
    /\ persistPath /\ ~last.wfail /\ nextId > 1 /\ last.opId > 1
    /\ disk = JSONStringify(<<>>)

\* C25: an initialize() that follows a successful initialize() with nothing in
\* between leaves the collection as the first one made it; an initialize() on a
\* store whose items are the entries of the snapshot leaves the collection
\* unchanged; without a persistence path initialize() changes nothing; and
\* initialize() writes no file.
InitializeReturned == last.op = "initialize"
C25_InitializeIdempotent ==
    InitializeReturned =>
        LET before == last.before.store
            after == last.value.store
            file == last.arg.disk
        IN /\ (last.arg.after \in {"none", "initialize"} /\ last.arg.init = "ready")
                  => after = before
           /\ (file.kind = "array" /\ MapValues(before) = file.entries) => after = before
           /\ ~persistPath => (after = before /\ last.status = "ok")
           /\ InFlight = {} => (disk = file /\ items = after)

\* initialize() was called a second time right after the first, loaded the
\* snapshot's items again and returned
C25_Witness ==
    /\ InitializeReturned /\ last.status = "ok" /\ persistPath
    /\ last.arg.after = "none" /\ last.arg.init = "ready"
    /\ last.arg.disk.kind = "array" /\ Len(last.value.store) > 0

\* ----- errors at the boundary ---------------------------------------------------------------
\* C26: when the provider's getEmbedding fails, with an EmbeddingError or with
\* anything else, searchByText raises a VectorStoreError, returns no list and
\* leaves the collection as it was.
C26_SearchByTextWraps ==
    (last.op = "searchByText" /\ last.arg.provider # "resolves") =>
        /\ last.status = "VectorStoreError"
        /\ last.value.results = <<>>
        /\ InFlight = {} => items = last.before.store

\* the provider failed with something that is not an EmbeddingError, on a store
\* that holds items
C26_Witness ==
    /\ last.op = "searchByText" /\ last.arg.provider = "Error"
    /\ InFlight = {} /\ Len(items) > 0

\* C27 (as claimed): every operation ends with its success value or with one of
\* ConfigError, EmbeddingError, VectorStoreError and MemoryNotFoundError,
\* whatever snapshot was loaded.
AppErrors == {"ConfigError", "EmbeddingError", "VectorStoreError", "MemoryNotFoundError"}
C27_OnlyAppErrors ==
    /\ last.status \in {"ok"} \cup AppErrors
    /\ init \in {"new", "ready"} \cup AppErrors

\* C28 (as claimed): an assignment by the caller to a property of an object that
\* was given to add or returned by add, get or update leaves the stored items
\* as they were.
C28_StoreOwnsItems ==
    (last.op = "assign" /\ InFlight = {}) => items = last.before.store

\* ----- the embedding providers ------------------------------------------------------------------
\* C29: OllamaEmbeddingProvider.getEmbedding either returns the array under the
\* response's embedding field or raises an EmbeddingError; it raises it when the
\* status is not a success (whatever the body), when a successful response has
\* no embedding or one that is not an array, and when fetch fails.
OllamaReturned == last.op = "ollama.getEmbedding"
HasEmbeddingArray(r) ==
    /\ r.fetch = "resolves" /\ r.body.kind = "object"
    /\ "embedding" \in DOMAIN r.body.data /\ r.body.data.embedding.isArray
C29_OllamaOutcomes ==
    OllamaReturned =>
        LET r == last.arg
        IN /\ \/ /\ last.status = "ok" /\ r.ok /\ HasEmbeddingArray(r)
                 /\ last.value.embedding = r.body.data.embedding.elements
              \/ last.status = "EmbeddingError"
           /\ r.fetch = "rejects" => last.status = "EmbeddingError"
           /\ (r.fetch = "resolves" /\ ~r.ok) => last.status = "EmbeddingError"
           /\ (r.fetch = "resolves" /\ ~HasEmbeddingArray(r)) => last.status = "EmbeddingError"

\* fetch rejected with a value that is not an Error
C29_Witness ==
    OllamaReturned /\ last.arg.fetch = "rejects" /\ last.arg.thrown = "string"

\* C30: createEmbeddingProvider raises a ConfigError and creates no provider for
\* gemini without an API key and for a provider name that is neither gemini nor
\* ollama; it returns a provider named gemini for gemini with a key and one named
\* ollama for ollama, with or without a key.
FactoryReturned == last.op = "createEmbeddingProvider"
C30_FactoryFailsFast ==
    FactoryReturned =>
        LET config == last.arg
            provider == last.value.provider
        IN /\ (config.embeddingProvider = "gemini" /\ config.geminiApiKey = "")
                  => (last.status = "ConfigError" /\ provider = Empty)
           /\ config.embeddingProvider \notin {"gemini", "ollama"}
                  => (last.status = "ConfigError" /\ provider = Empty)
           /\ (config.embeddingProvider = "gemini" /\ config.geminiApiKey # "")
                  => (last.status = "ok" /\ provider.name = "gemini")
           /\ config.embeddingProvider = "ollama"
                  => (last.status = "ok" /\ provider.name = "ollama")

\* an unsupported provider name was configured, with an API key set
C30_Witness ==
    /\ FactoryReturned /\ last.arg.embeddingProvider = "invalid"
    /\ last.arg.geminiApiKey # "" /\ last.status = "ConfigError"

\* C31: every add stores its item under an id that no stored item has: the
\* collection grows by exactly one entry, every entry it held is as it was, and
\* the new entry carries the generated id, also when the payload has an id field
\* of its own or duplicates a stored item.
AddCalled(c) ==
    call[c].pc = "idle" /\ call'[c].pc = "persisting" /\ call'[c].op = "add"

C31_AddFreshId ==
    [][\A c \in Calls :
          AddCalled(c) =>
              LET id == call'[c].id
              IN /\ ~MapHas(items, id)
                 /\ Len(items') = Len(items) + 1
                 /\ \A i \in 1..Len(items) : items'[i] = items[i]
                 /\ MapHas(items', id)
                 /\ get(items', id) = call'[c].value
                 /\ get(items', id).id = id]_vars

\* the payload carries the id of a stored item and equals, in text, metadata and
\* embedding, an item that was stored before
C31_Witness ==
    /\ last.op = "add" /\ last.status = "ok"
    /\ "id" \in DOMAIN last.arg /\ last.arg.id # last.id
    /\ MapHas(items, last.arg.id) /\ MapHas(items, last.id)
    /\ get(items, last.id).id = last.id
    /\ \E k \in MapKeys(items) \ {last.id} :
           /\ get(items, k).text = last.arg.text
           /\ get(items, k).metadata = last.arg.metadata
           /\ get(items, k).embedding = last.arg.embedding

\* C32: cosine scoring is symmetric and safe on zero vectors: a search over items
\* of the query's length raises nothing, the score of each result is the score
\* of the pair taken the other way round, and it is exactly 0 when the query or
\* the stored embedding has zero norm.
ZeroNorm(v) == \A i \in 1..Len(v) : v[i] = 0
SameLengths ==
    \A i \in 1..Len(last.before.store) :
        Len(last.before.store[i].value.embedding) = Len(last.arg.embedding)

C32_CosineSymmetricZeroSafe ==
    (last.op = "search" /\ SameLengths)
    => /\ last.status = "ok"
       /\ Len(last.value.results) = Len(last.before.store)
       /\ \A i \in 1..Len(last.value.results) :
              LET r == last.value.results[i]
              IN /\ r.score = cosineSimilarity(r.item.embedding, last.arg.embedding)
                 /\ r.score.den2 > 0
                 /\ (ZeroNorm(last.arg.embedding) \/ ZeroNorm(r.item.embedding))
                        => r.score = Score(0, 1)

\* a search with a zero query, and a search that scored a stored zero embedding
\* next to a pair of score other than 0
C32_Witness ==
    /\ last.op = "search" /\ SameLengths /\ last.status = "ok"
    /\ \E i, j \in 1..Len(last.value.results) :
           /\ ZeroNorm(last.value.results[i].item.embedding)
           /\ ~ZeroNorm(last.arg.embedding)
           /\ last.value.results[j].score.num < 0

\* C33: in every state each entry of the collection is stored under the id of its
\* own item (an entry that was loaded without an id has the key undefined), and
\* no key occurs twice.
C33_KeyIsItemId ==
    /\ \A i \in 1..Len(items) : ItemId(items[i].value) = items[i].key
    /\ \A i, j \in 1..Len(items) : items[i].key = items[j].key => i = j

\* the snapshot held one id twice, a patch that carried another id was applied
\* to the loaded item, and an item was added
C33_Witness ==
    /\ disk.kind = "array" /\ Len(disk.entries) = 2
    /\ Len(items) = 2
    /\ \E i \in 1..Len(items) : items[i].key = 101 /\ items[i].value.text = <<1, 2>>
    /\ last.op = "update" /\ "id" \in DOMAIN last.arg /\ InFlight = {}
    /\ trace.wfail

\* C34 (as claimed): every vector that OllamaEmbeddingProvider.getEmbedding
\* returns has getDimensions() components, whatever array the service sent.
C34_OllamaLength ==
    (OllamaReturned /\ last.status = "ok")
    => Len(last.value.embedding) = OllamaGetDimensions

\* C35: an update that is suspended at the provider call has changed nothing that
\* can be observed. The step that suspends it leaves the collection (so what get,
\* search and getStats return) and the file as they were and hands no data to
\* a snapshot write; while it is suspended it changes nothing, and the data
\* another operation hands to a snapshot write holds the item as the collection
\* holds it; the step that resumes it stores the new text, the new embedding and
\* the merged metadata at once.
Suspended(c) == call[c].pc = "embedding"

C35_UpdateInvisibleUntilCommit ==
    [][\A c \in Calls :
          /\ (call[c].pc = "idle" /\ call'[c].pc = "embedding")
             => /\ items' = items /\ disk' = disk
                /\ get(items', call'[c].id) = call'[c].before
                /\ \A q \in {getEmbedding(<<1>>), getEmbedding(<<2>>)} :
                       search(items', [embedding |-> q]) = search(items, [embedding |-> q])
                /\ \A d \in Calls \ {c} : call'[d] = call[d]
          /\ (Suspended(c) /\ call'[c].pc = "embedding")
             => /\ call'[c] = call[c]
                /\ items' # items => \E d \in Calls \ {c} : call'[d] # call[d]
                /\ \A d \in Calls \ {c} :
                       (persistPath /\ call[d].pc # "persisting" /\ call'[d].pc = "persisting")
                       => /\ call'[d].data = JSONStringify(MapValues(items'))
                          /\ (MapHas(items', call[c].id)
                               /\ get(items, call[c].id) = call[c].before
                               /\ call'[d].id # call[c].id)
                             => /\ get(items', call[c].id) = call[c].before
                                /\ call[c].before \in Range(call'[d].data.entries)
          /\ (Suspended(c) /\ call'[c].pc = "persisting")
             => LET new == get(items', call[c].id)
                IN /\ new.text = call[c].arg.text
                   /\ new.embedding = getEmbedding(call[c].arg.text)
                   /\ "metadata" \in DOMAIN call[c].arg
                          => \A k \in DOMAIN call[c].arg.metadata :
                                 new.metadata[k] = call[c].arg.metadata[k]
                   /\ persistPath => new \in Range(call'[c].data.entries)]_vars

\* an update of a new text and source is suspended, an add that was issued
\* meanwhile has handed the collection to a snapshot write: the item is there
\* with its old text, metadata and embedding
C35_Witness ==
    \E c \in Calls, d \in Calls :
        /\ persistPath
        /\ Suspended(c) /\ "metadata" \in DOMAIN call[c].arg
        /\ call[d].pc = "persisting" /\ call[d].op = "add" /\ call[d].opId > call[c].opId
        /\ get(items, call[c].id) = call[c].before
        /\ call[c].before.text # call[c].arg.text
        /\ call[c].before \in Range(call[d].data.entries)

\* C36: an update that calls no provider reads the item and stores the result in
\* the step in which it is called: it is applied to the item as the collection
\* holds it then, which is the result of an update of the same id that is still
\* writing its snapshot, and the collection holds its result when it suspends.
\* Add, delete and clear have changed the collection when they first suspend.
Called(c, op) == call[c].pc = "idle" /\ call'[c].pc = "persisting" /\ call'[c].op = op

C36_SynchronousMutations ==
    [][\A c \in Calls :
          /\ Called(c, "update")
             => LET u == call'[c]
                    item == get(items, u.id)
                IN /\ ~NeedsEmbedding(u.arg)
                   /\ u.before = item
                   /\ u.value = MergeMetadata(item, u.arg, UpdatedItem(item, u.arg, u.id))
                   /\ get(items', u.id) = u.value
                   /\ \A k \in MapKeys(items) \ {u.id} : get(items', k) = get(items, k)
                   /\ \A d \in Calls \ {c} :
                          ( /\ call[d].pc = "persisting" /\ call[d].op = "update"
                            /\ call[d].id = u.id /\ LastToMutate(call[d].opId) )
                          => u.before = call[d].value
          /\ Called(c, "add") => get(items', call'[c].id) = call'[c].value
          /\ Called(c, "delete") => ~MapHas(items', call'[c].id)
          /\ Called(c, "clear") => items' = EmptyMap]_vars

\* two updates of one id, neither with a provider call, were issued without
\* awaiting the first: the item has the embedding and tags of the first and the
\* text of the second
C36_Witness ==
    \E c \in Calls, d \in Calls :
        /\ call[c].pc = "persisting" /\ call[c].op = "update"
        /\ call[d].pc = "persisting" /\ call[d].op = "update"
        /\ call[c].id = call[d].id /\ call[c].opId < call[d].opId
        /\ "embedding" \in DOMAIN call[c].arg
        /\ call[d].arg = [text |-> <<>>]
        /\ call[d].before = call[c].value
        /\ get(items, call[d].id).text = <<>>
        /\ get(items, call[d].id).embedding = call[c].arg.embedding
        /\ get(items, call[d].id).metadata.tags = call[c].arg.metadata.tags

\* C37 (as claimed): on a store with a persistence path, whenever no operation is
\* in flight, the collection was changed at least once and no snapshot write has
\* failed, the file holds the collection as it is in memory, in whatever order
\* the writes of operations that were not awaited completed.
C37_SnapshotConverges ==
    (persistPath /\ init = "ready" /\ InFlight = {} /\ trace.lastMut > 0 /\ ~trace.wfail)
    => disk = JSONStringify(MapValues(items))

\* C38: get, search, searchByText and getStats leave the collection (its items
\* and their order) and the file as they were and hand nothing to a snapshot
\* write; so do delete and update of an id that is not stored.
ReadOps == {"get", "search", "searchByText", "getStats"}
ReadStep ==
    last'.op \in ReadOps /\ call' = call /\ trace' = trace /\ init' = init
NotFoundStep ==
    /\ trace'.nops = trace.nops + 1 /\ last'.opId = trace'.nops
    /\ \/ last'.op = "delete" /\ last'.value = JSBool(FALSE)
       \/ last'.op = "update" /\ IsNull(last'.value)

C38_ReadsChangeNothing ==
    [][/\ ReadStep => items' = items /\ disk' = disk
       /\ NotFoundStep => items' = items /\ disk' = disk /\ call' = call]_vars

\* a search has returned two items in another order than the collection holds
\* them, and the collection is as the search found it
C38_Witness ==
    /\ last.op = "search" /\ last.status = "ok"
    /\ Len(last.value.results) >= 2 /\ Len(items) >= 2
    /\ last.value.results[1].item # items[1].value
    /\ last.before.store = items

\* C39 (as claimed): an item that add stored leaves the collection only in a step
\* in which delete of its id or clear is called; no other step, a repeated
\* initialize() after a failed snapshot write included, removes it.
GeneratedIds == 1..MaxAdds

C39_AddedStaysUntilDeleted ==
    [][\A id \in GeneratedIds :
          (MapHas(items, id) /\ ~MapHas(items', id))
          => \E c \in Calls : (Called(c, "delete") /\ call'[c].id = id)
                               \/ Called(c, "clear")]_vars

====
